---------------------------- MODULE Spec2Model ----------------------------
(***************************************************************************)
(* A model of package linedb (src/linedb/linedb.go): a line-record store   *)
(* backed by a plain text file.                                            *)
(*                                                                         *)
(* A string is a sequence of characters, the backing file is the sequence  *)
(* of its bytes and a Database handle is its records slice.  The file      *)
(* system is the file's content plus the condition (fault) that decides    *)
(* how os.ReadFile and os.WriteFile end.  Every method of Database is an   *)
(* operator that maps the handle's records, the file and the fault to the  *)
(* set of outcomes the call can have, and an action that takes one of      *)
(* them.  The variable last records the call just made: its arguments,     *)
(* what it returned and the state it started from.                         *)
(***************************************************************************)
EXTENDS Integers, Sequences, FiniteSets, TLC

VARIABLES file, fault, opened, records, last

vars == <<file, fault, opened, records, last>>

-----------------------------------------------------------------------------
(* Bounds of the model *)

\* most records a handle holds
MaxRecords == 3

-----------------------------------------------------------------------------
(* Strings *)

\* the record separator, '\n'
NL == "\n"

Chars == {"a", NL}

\* the texts callers pass to Insert and Update: a record is one line, so a
\* text holds no separator; the empty text is a valid record
Texts == {<<>>, <<"a">>}

\* the record numbers callers pass
Numbers == -1 .. MaxRecords + 1

Handles == {"A", "B"}

RECURSIVE SeqsUpTo(_, _)
SeqsUpTo(S, n) ==
    IF n = 0 THEN {<<>>}
    ELSE LET shorter == SeqsUpTo(S, n - 1)
         IN  shorter \cup {Append(s, c) : s \in {t \in shorter : Len(t) = n - 1}, c \in S}

\* the contents the backing file may have before the first Open: they decode
\* to at most MaxRecords records
FileContents == SeqsUpTo(Chars, MaxRecords - 1)

RECURSIVE JoinNoSeparator(_, _)
\* a Join that leaves the separator out
JoinNoSeparator(elems, sep) ==
    IF Len(elems) = 0 THEN <<>>
    ELSE elems[1] \o JoinNoSeparator(Tail(elems), sep)

\* strings.Join(elems, sep) for the one-character separator
RECURSIVE Join(_, _)
Join(elems, sep) ==
    IF Len(elems) = 0 THEN <<>>
    ELSE IF Len(elems) = 1 THEN elems[1]
    ELSE elems[1] \o <<sep>> \o Join(Tail(elems), sep)

\* strings.Index(s, sep) + 1 for the one-character separator; 0 if absent
Index(s, sep) ==
    IF \E i \in 1 .. Len(s) : s[i] = sep
    THEN CHOOSE i \in 1 .. Len(s) : s[i] = sep /\ \A j \in 1 .. i - 1 : s[j] # sep
    ELSE 0

\* strings.Split(s, sep) for the one-character separator
RECURSIVE Split(_, _)
Split(s, sep) ==
    LET m == Index(s, sep)
    IN  IF m = 0 THEN <<s>>
        ELSE <<SubSeq(s, 1, m - 1)>> \o Split(SubSeq(s, m + 1, Len(s)), sep)

\* strings.Count(s, sep) for the one-character separator
Count(s, sep) == Cardinality({i \in 1 .. Len(s) : s[i] = sep})

-----------------------------------------------------------------------------
(* Errors: the kind and the integers the message is formatted from *)

Err(kind, number, lower, upper) ==
    [kind |-> kind, number |-> number, lower |-> lower, upper |-> upper]

NoErr == Err("nil", 0, 0, 0)

\* "no records in database"
ErrEmpty == Err("empty", 0, 0, 0)

\* "record number (%d) out of bounds [%d, %d]"
ErrBounds(number, lower, upper) == Err("bounds", number, lower, upper)

\* "cannot open linedb backing file %s: %w"
ErrLoad == Err("load", 0, 0, 0)

\* "cannot save linedb backing file %s: %w"
ErrSave == Err("save", 0, 0, 0)

\* the run-time panic of an index or a slice bound out of range: the call
\* returns nothing and the process ends
ErrPanic == Err("panic", 0, 0, 0)

-----------------------------------------------------------------------------
(* The file system *)

\* none:     mode 0600, the device has room
\* readonly: mode 0400 (os.Chmod(filePath, 0400) of the tests)
\* noaccess: the file cannot be opened at all
\* nospace:  mode 0600, the device takes no more bytes (a full device, or a
\*           file size limit of zero)
Faults == {"none", "readonly", "noaccess", "nospace"}

\* os.ReadFile(filePath)
ReadFile(content, flt) ==
    IF flt = "noaccess" THEN [err |-> TRUE, buf |-> <<>>]
    ELSE [err |-> FALSE, buf |-> content]

\* a WriteFile that opens without O_TRUNC: the bytes after the written ones stay
WriteFileNoTruncate(content, data, flt) ==
    IF flt \in {"readonly", "noaccess"}
    THEN {[err |-> TRUE, content |-> content]}
    ELSE IF flt = "nospace" /\ Len(data) > 0
    THEN {[err |-> TRUE, content |-> content]}
    ELSE {[err |-> FALSE, content |-> data \o SubSeq(content, Len(data) + 1, Len(content))]}

\* os.WriteFile(filePath, data, 0): open with O_WRONLY|O_CREATE|O_TRUNC, then
\* write, then close.  A failed open leaves the file alone; a failed write
\* comes after the truncation, so the file is left with the bytes the device
\* took, which are none.  Writing no bytes cannot fail.
WriteFile(content, data, flt) ==
    IF flt \in {"readonly", "noaccess"}
    THEN {[err |-> TRUE, content |-> content]}
    ELSE IF flt = "nospace" /\ Len(data) > 0
    THEN {[err |-> TRUE, content |-> <<>>]}
    ELSE {[err |-> FALSE, content |-> data]}

-----------------------------------------------------------------------------
(* The codec *)

\* a loadFromFile without the special case of the empty file
loadFromFileSplitOnly(content, flt) ==
    LET r == ReadFile(content, flt)
    IN  IF r.err THEN [records |-> <<>>, err |-> ErrLoad]
        ELSE [records |-> Split(r.buf, NL), err |-> NoErr]

loadFromFile(content, flt) ==
    LET r == ReadFile(content, flt)
    IN  IF r.err THEN [records |-> <<>>, err |-> ErrLoad]
        ELSE IF Len(r.buf) = 0 THEN [records |-> <<>>, err |-> NoErr]
        ELSE [records |-> Split(r.buf, NL), err |-> NoErr]

saveToFile(content, recs, flt) ==
    {[err |-> IF w.err THEN ErrSave ELSE NoErr, content |-> w.content] :
        w \in WriteFile(content, Join(recs, NL), flt)}

-----------------------------------------------------------------------------
(* Database: the pure part of each method *)

Rec(number, text) == [Number |-> number, Text |-> text]

\* the run-time check of db.records[number-1]
IndexInRange(recs, number) == number - 1 >= 0 /\ number - 1 < Len(recs)

\* the run-time checks of db.records[0:number-1] and db.records[number-1:]
SliceInRange(recs, number) == number - 1 >= 0 /\ number - 1 <= Len(recs)

Length(recs) == Len(recs)

checkEmpty(recs) ==
    IF Length(recs) = 0 THEN ErrEmpty ELSE NoErr

\* a checkBounds that lets the number after the last record through
checkBoundsPastEnd(recs, lower, number) ==
    LET numberOfRecords == Length(recs)
    IN  IF number < lower \/ number > numberOfRecords + 1
        THEN ErrBounds(number, lower, numberOfRecords)
        ELSE NoErr

checkBounds(recs, lower, number) ==
    LET numberOfRecords == Length(recs)
    IN  IF number < lower \/ number > numberOfRecords
        THEN ErrBounds(number, lower, numberOfRecords)
        ELSE NoErr

\* a Record that checks the bounds before the emptiness
RecordBoundsFirst(recs, number) ==
    IF checkBounds(recs, 1, number) # NoErr
    THEN [ret |-> <<>>, err |-> checkBounds(recs, 1, number)]
    ELSE IF checkEmpty(recs) # NoErr THEN [ret |-> <<>>, err |-> checkEmpty(recs)]
    ELSE IF ~IndexInRange(recs, number) THEN [ret |-> <<>>, err |-> ErrPanic]
    ELSE [ret |-> recs[number], err |-> NoErr]

Record(recs, number) ==
    IF checkEmpty(recs) # NoErr THEN [ret |-> <<>>, err |-> checkEmpty(recs)]
    ELSE IF checkBounds(recs, 1, number) # NoErr
    THEN [ret |-> <<>>, err |-> checkBounds(recs, 1, number)]
    ELSE IF ~IndexInRange(recs, number) THEN [ret |-> <<>>, err |-> ErrPanic]
    ELSE [ret |-> recs[number], err |-> NoErr]

\* an All that numbers the records from 0
AllZeroBased(recs) == [i \in 1 .. Length(recs) |-> Rec(i - 1, recs[i])]

All(recs) == [i \in 1 .. Length(recs) |-> Rec(i, recs[i])]

\* the filter functions callers pass to Select
Filters == {"hasA", "isEmpty", "evenNumber", "none"}

Filter(f, r) ==
    CASE f = "hasA" -> \E i \in 1 .. Len(r.Text) : r.Text[i] = "a"
      [] f = "isEmpty" -> Len(r.Text) = 0
      [] f = "evenNumber" -> r.Number % 2 = 0
      [] OTHER -> FALSE

RECURSIVE SelectFrom(_, _, _)
\* the loop of Select, from index i (1-based) on
SelectFrom(recs, f, i) ==
    IF i > Len(recs) THEN <<>>
    ELSE (IF Filter(f, Rec(i, recs[i])) THEN <<Rec(i, recs[i])>> ELSE <<>>)
             \o SelectFrom(recs, f, i + 1)

\* a Select whose loop starts at the second record
SelectSkipFirst(recs, f) == SelectFrom(recs, f, 2)

Select(recs, f) == SelectFrom(recs, f, 1)

\* an Insert without the special case
InsertNeverNoop(recs, record) == FALSE

\* a special case for the non-empty record instead of the empty one
InsertNoopInverted(recs, record) == Length(recs) = 0 /\ record # <<>>

\* Insert's special case: an empty record on an empty database is a noop
InsertNoop(recs, record) == Length(recs) = 0 /\ record = <<>>

\* an Insert that puts the record after the number-th one
InsertRecordsAfter(recs, number, record) ==
    IF number = 0 THEN Append(recs, record)
    ELSE SubSeq(recs, 1, number) \o <<record>> \o SubSeq(recs, number + 1, Len(recs))

\* an Insert whose number 0 means the beginning of the file
InsertRecordsFront(recs, number, record) ==
    IF number = 0 THEN <<record>> \o recs
    ELSE SubSeq(recs, 1, number - 1) \o <<record>> \o SubSeq(recs, number, Len(recs))

\* Insert's new slice: append for number 0, else the three appends
InsertRecords(recs, number, record) ==
    IF number = 0 THEN Append(recs, record)
    ELSE SubSeq(recs, 1, number - 1) \o <<record>> \o SubSeq(recs, number, Len(recs))

\* an assignment to the first record, whatever the number
SetRecordFirst(recs, number, record) == [recs EXCEPT ![1] = record]

\* db.records[number-1] = record
SetRecord(recs, number, record) == [recs EXCEPT ![number] = record]

RECURSIVE DeleteFrom(_, _, _)
\* the loop of Delete, from index i (1-based) on
DeleteFrom(recs, number, i) ==
    IF i > Len(recs) THEN <<>>
    ELSE (IF i = number THEN <<>> ELSE <<recs[i]>>) \o DeleteFrom(recs, number, i + 1)

\* a Delete that compares the 0-based index with number
DeleteRecordsOffByOne(recs, number) == DeleteFrom(recs, number + 1, 1)

DeleteRecords(recs, number) == DeleteFrom(recs, number, 1)

\* an assignment of db.records made without looking at saveToFile's error
CommitAlways(recs, newRecords, err) == newRecords

\* Insert and Delete assign db.records only after saveToFile returned nil
Commit(recs, newRecords, err) == IF err # NoErr THEN recs ELSE newRecords

\* an Update that leaves the new text in place when saveToFile failed
RestoreNothing(recs, number, old, err) == recs

\* Update puts the old text back when saveToFile failed
Restore(recs, number, old, err) ==
    IF err # NoErr THEN SetRecord(recs, number, old) ELSE recs

-----------------------------------------------------------------------------
(* Database: the outcomes of each method.  An outcome is the handle's      *)
(* records and the file's content after the call, the error and the text   *)
(* returned, whether saveToFile was called and, if it was, db.records at   *)
(* that moment.                                                            *)

Out(recs, content, err, ret, saved, inMem) ==
    [records |-> recs, content |-> content, err |-> err, ret |-> ret,
     saved |-> saved, inMem |-> inMem]

\* an Insert that applies the special case before the bounds check
InsertNoopFirst(recs, content, flt, number, record) ==
    IF InsertNoop(recs, record)
    THEN {Out(recs, content, NoErr, <<>>, FALSE, <<>>)}
    ELSE IF checkBounds(recs, 0, number) # NoErr
    THEN {Out(recs, content, checkBounds(recs, 0, number), <<>>, FALSE, <<>>)}
    ELSE IF number # 0 /\ ~SliceInRange(recs, number)
    THEN {Out(recs, content, ErrPanic, <<>>, FALSE, <<>>)}
    ELSE LET newRecords == InsertRecords(recs, number, record)
         IN  {Out(Commit(recs, newRecords, s.err), s.content, s.err, <<>>, TRUE, recs) :
                 s \in saveToFile(content, newRecords, flt)}

Insert(recs, content, flt, number, record) ==
    IF checkBounds(recs, 0, number) # NoErr
    THEN {Out(recs, content, checkBounds(recs, 0, number), <<>>, FALSE, <<>>)}
    ELSE IF InsertNoop(recs, record)
    THEN {Out(recs, content, NoErr, <<>>, FALSE, <<>>)}
    ELSE IF number # 0 /\ ~SliceInRange(recs, number)
    THEN {Out(recs, content, ErrPanic, <<>>, FALSE, <<>>)}
    ELSE LET newRecords == InsertRecords(recs, number, record)
         IN  {Out(Commit(recs, newRecords, s.err), s.content, s.err, <<>>, TRUE, recs) :
                 s \in saveToFile(content, newRecords, flt)}

Update(recs, content, flt, number, record) ==
    LET r == Record(recs, number)
    IN  IF r.err # NoErr
        THEN {Out(recs, content, r.err, <<>>, FALSE, <<>>)}
        ELSE IF ~IndexInRange(recs, number)
        THEN {Out(recs, content, ErrPanic, <<>>, FALSE, <<>>)}
        ELSE LET changed == SetRecord(recs, number, record)
             IN  {Out(Restore(changed, number, r.ret, s.err), s.content, s.err,
                      IF s.err # NoErr THEN <<>> ELSE r.ret, TRUE, changed) :
                     s \in saveToFile(content, changed, flt)}

Delete(recs, content, flt, number) ==
    LET r == Record(recs, number)
    IN  IF r.err # NoErr
        THEN {Out(recs, content, r.err, <<>>, FALSE, <<>>)}
        ELSE IF Length(recs) - 1 < 0
        THEN {Out(recs, content, ErrPanic, <<>>, FALSE, <<>>)}
        ELSE LET newRecords == DeleteRecords(recs, number)
             IN  {Out(Commit(recs, newRecords, s.err), s.content, s.err,
                      IF s.err # NoErr THEN <<>> ELSE r.ret, TRUE, recs) :
                     s \in saveToFile(content, newRecords, flt)}

-----------------------------------------------------------------------------
(* The state machine *)

\* the call being made through handle h, before its results are filled in
Call(h, op, number, text) ==
    [h |-> h, op |-> op, number |-> number, text |-> text, filter |-> "none",
     err |-> NoErr, ret |-> <<>>, len |-> 0, recs |-> <<>>,
     saved |-> FALSE, inMem |-> <<>>,
     pre |-> records[h], preFile |-> file]

\* a call of a mutating method took outcome o
Mutated(h, op, number, text, o) ==
    /\ records' = [records EXCEPT ![h] = o.records]
    /\ file' = o.content
    /\ last' = [Call(h, op, number, text) EXCEPT
                   !.err = o.err, !.ret = o.ret, !.saved = o.saved, !.inMem = o.inMem]
    /\ UNCHANGED <<fault, opened>>

Init ==
    /\ file \in FileContents
    /\ fault = "none"
    /\ opened = [h \in Handles |-> FALSE]
    /\ records = [h \in Handles |-> <<>>]
    /\ last = [h |-> "A", op |-> "none", number |-> 0, text |-> <<>>, filter |-> "none",
               err |-> NoErr, ret |-> <<>>, len |-> 0, recs |-> <<>>,
               saved |-> FALSE, inMem |-> <<>>,
               pre |-> <<>>, preFile |-> file]

\* the environment, between two calls made through h: os.Chmod on the file,
\* the device filling up or emptying
SetFault(h) ==
    /\ \E f \in Faults \ {fault} : fault' = f
    /\ last' = Call(h, "SetFault", 0, <<>>)
    /\ UNCHANGED <<file, opened, records>>

\* db, err := linedb.Open(filePath): h is the variable the result is assigned to
CallOpen(h) ==
    LET r == loadFromFile(file, fault)
    IN  /\ Len(r.records) <= MaxRecords
        /\ opened' = [opened EXCEPT ![h] = (r.err = NoErr)]
        /\ records' = [records EXCEPT ![h] = r.records]
        /\ last' = [Call(h, "Open", 0, <<>>) EXCEPT !.err = r.err]
        /\ UNCHANGED <<file, fault>>

CallLength(h) ==
    /\ opened[h]
    /\ last' = [Call(h, "Length", 0, <<>>) EXCEPT !.len = Length(records[h])]
    /\ UNCHANGED <<file, fault, opened, records>>

CallAll(h) ==
    /\ opened[h]
    /\ last' = [Call(h, "All", 0, <<>>) EXCEPT !.recs = All(records[h])]
    /\ UNCHANGED <<file, fault, opened, records>>

CallRecord(h) ==
    /\ opened[h]
    /\ \E number \in Numbers :
          LET r == Record(records[h], number)
          IN  last' = [Call(h, "Record", number, <<>>) EXCEPT !.err = r.err, !.ret = r.ret]
    /\ UNCHANGED <<file, fault, opened, records>>

CallSelect(h) ==
    /\ opened[h]
    /\ \E f \in Filters :
          last' = [Call(h, "Select", 0, <<>>) EXCEPT
                      !.filter = f, !.recs = Select(records[h], f)]
    /\ UNCHANGED <<file, fault, opened, records>>

CallInsert(h, T) ==
    /\ opened[h]
    /\ \E number \in Numbers, text \in T :
          \E o \in Insert(records[h], file, fault, number, text) :
              /\ Len(o.records) <= MaxRecords
              /\ Mutated(h, "Insert", number, text, o)

CallUpdate(h, T) ==
    /\ opened[h]
    /\ \E number \in Numbers, text \in T :
          \E o \in Update(records[h], file, fault, number, text) :
              Mutated(h, "Update", number, text, o)

CallDelete(h) ==
    /\ opened[h]
    /\ \E number \in Numbers :
          \E o \in Delete(records[h], file, fault, number) :
              Mutated(h, "Delete", number, <<>>, o)

\* the calls made through the handles of HS with texts of T
NextOf(HS, T) ==
    \/ \E h \in HS : SetFault(h)
    \/ \E h \in HS : CallOpen(h)
    \/ \E h \in HS : CallLength(h)
    \/ \E h \in HS : CallAll(h)
    \/ \E h \in HS : CallRecord(h)
    \/ \E h \in HS : CallSelect(h)
    \/ \E h \in HS : CallInsert(h, T)
    \/ \E h \in HS : CallUpdate(h, T)
    \/ \E h \in HS : CallDelete(h)

\* one handle, the only writer of its file
Next == NextOf({"A"}, Texts)

Spec == Init /\ [][Next]_vars

\* two handles on the same path, each opened and written through in any
\* order, on a file system without faults; each handle holds one record
\* less than MaxRecords at most
InitShared == Init /\ Len(file) <= MaxRecords - 2

NextShared ==
    \/ \E h \in Handles : CallOpen(h)
    \/ \E h \in Handles : CallInsert(h, Texts) /\ Len(records'[h]) <= MaxRecords - 1
    \/ \E h \in Handles : CallUpdate(h, Texts)
    \/ \E h \in Handles : CallDelete(h)

SpecShared == InitShared /\ [][NextShared]_vars

-----------------------------------------------------------------------------
(* Properties.  Each speaks of the call last made, through handle last.h:  *)
(* last.pre and last.preFile are the handle's records and the file's       *)
(* content when the call started, records[last.h] and file what it left.   *)

Mutators == {"Insert", "Update", "Delete"}

Methods == {"Length", "All", "Record", "Select"} \cup Mutators

\* the call last made returned no error
Succeeded == last.err = NoErr

\* the call last made called saveToFile and the write failed
WriteFailed == last.op \in Mutators /\ last.saved /\ last.err # NoErr

\* what a fresh Open of the file as it is now would load
Reopened == loadFromFile(file, "none").records

\* C1: after Open and after every successful call of a method, the file's
\* bytes are the handle's records joined with the separator.
C1_FileIsJoinedRecords ==
    (last.op \in {"Open"} \cup Methods /\ Succeeded)
        => file = Join(records[last.h], NL)

\* C2: when the write fails during Insert, Update or Delete, the call returns
\* the save error and the handle's records, hence Length() and All(), are
\* what they were before the call.
C2_WriteFailureKeepsMemory ==
    WriteFailed =>
        /\ last.err = ErrSave
        /\ records[last.h] = last.pre
        /\ Length(records[last.h]) = Length(last.pre)
        /\ All(records[last.h]) = All(last.pre)

C2_Witness ==
    /\ WriteFailed
    /\ last.op = "Update"
    /\ last.text # last.pre[last.number]
    /\ Len(last.pre) >= 2

\* C3: when the write fails during Insert, Update or Delete, the file's
\* content is byte for byte what it was before the call.
C3_WriteFailureKeepsFile ==
    WriteFailed => file = last.preFile

\* C4: after a successful Open, Insert, Update or Delete, decoding the file
\* gives the handle's records; the file is zero-length exactly when there
\* are no records, and otherwise Length() is the number of separators in
\* the file plus one.
C4_RoundTrip ==
    (last.op \in {"Open"} \cup Mutators /\ Succeeded) =>
        /\ Reopened = records[last.h]
        /\ Len(file) = 0 <=> Length(records[last.h]) = 0
        /\ Len(file) > 0 => Length(records[last.h]) = Count(file, NL) + 1

\* the position a successful Insert(number, _) puts the record at
InsertedAt == IF last.number >= 1 THEN last.number ELSE Length(records[last.h])

\* C5 as stated: after every successful Insert(number, text), Record at the
\* inserted position succeeds and returns text.
C5_InsertThenRecord ==
    (last.op = "Insert" /\ Succeeded) =>
        Record(records[last.h], InsertedAt) = [ret |-> last.text, err |-> NoErr]

\* C5 as amended: after a successful Insert(number, text) other than
\* Insert(0, "") on a store with no records, Record at the inserted position
\* succeeds and returns text; after a successful Insert(0, "") on a store
\* with no records there is no record and Record fails with the empty-store
\* error.
C5_InsertThenRecordUnlessNoop ==
    (last.op = "Insert" /\ Succeeded) =>
        IF Length(last.pre) = 0 /\ last.text = <<>>
        THEN /\ last.number = 0
             /\ Record(records[last.h], InsertedAt).err = ErrEmpty
        ELSE Record(records[last.h], InsertedAt) = [ret |-> last.text, err |-> NoErr]

C5_Witness ==
    /\ last.op = "Insert"
    /\ Succeeded
    /\ last.number = 2
    /\ Length(last.pre) = 2
    /\ last.text # last.pre[2]
    /\ last.text # last.pre[1]

\* C6: a successful Insert(number, text) with 1 <= number <= Length() keeps
\* the records before position number, puts text at position number and moves
\* the others one position later; a successful Insert(0, text) that is not
\* the noop puts text after the last record; Length() grows by one and the
\* file holds the new sequence.
C6_InsertShifts ==
    (last.op = "Insert" /\ Succeeded /\ ~(Length(last.pre) = 0 /\ last.text = <<>>)) =>
        LET old == last.pre
            new == records[last.h]
            at == IF last.number = 0 THEN Len(old) + 1 ELSE last.number
        IN  /\ Length(new) = Length(old) + 1
            /\ \A i \in 1 .. at - 1 : new[i] = old[i]
            /\ new[at] = last.text
            /\ \A i \in at .. Len(old) : new[i + 1] = old[i]
            /\ file = Join(new, NL)

C6_Witness ==
    /\ last.op = "Insert"
    /\ Succeeded
    /\ last.number = 0
    /\ Length(last.pre) = 2
    /\ last.text # last.pre[1]
    /\ file = Join(last.pre, NL) \o <<NL>> \o last.text

\* C7: Insert(0, "") on a store with no records succeeds, creates no record
\* and does not write: saveToFile is not called and the file is untouched,
\* also when a write would fail.
C7_EmptyInsertIsNoop ==
    (last.op = "Insert" /\ Length(last.pre) = 0 /\ last.number = 0 /\ last.text = <<>>) =>
        /\ Succeeded
        /\ Length(records[last.h]) = 0
        /\ ~last.saved
        /\ file = last.preFile

C7_Witness ==
    /\ last.op = "Insert"
    /\ Length(last.pre) = 0
    /\ last.number = 0
    /\ last.text = <<>>
    /\ fault = "readonly"
    /\ Succeeded

\* C8: Insert(number, text) fails with the out-of-bounds error of (number, 0,
\* Length()) exactly when number < 0 or number > Length(), whatever the text
\* and also for an empty text on a store with no records; it never reports
\* the empty-store error.
C8_InsertBounds ==
    (last.op = "Insert") =>
        /\ (last.number < 0 \/ last.number > Length(last.pre))
              <=> last.err = ErrBounds(last.number, 0, Length(last.pre))
        /\ last.err.kind = "bounds" <=> (last.number < 0 \/ last.number > Length(last.pre))
        /\ last.err # ErrEmpty

C8_Witness ==
    /\ last.op = "Insert"
    /\ Length(last.pre) = 0
    /\ last.text = <<>>
    /\ last.number = 1
    /\ last.err = ErrBounds(1, 0, 0)

\* C9: Record, Update and Delete fail with the empty-store error for every
\* number on a store with no records; on a store with records they fail with
\* the out-of-bounds error of (number, 1, Length()) exactly when number < 1
\* or number > Length(); otherwise Record returns the text at position number.
C9_RecordChecks ==
    (last.op \in {"Record", "Update", "Delete"}) =>
        LET n == Length(last.pre)
            outside == last.number < 1 \/ last.number > n
        IN  /\ n = 0 => last.err = ErrEmpty
            /\ n > 0 => /\ last.err # ErrEmpty
                        /\ outside <=> last.err = ErrBounds(last.number, 1, n)
                        /\ outside <=> last.err.kind = "bounds"
            /\ (n > 0 /\ ~outside /\ last.op = "Record") =>
                   /\ Succeeded
                   /\ last.ret = last.pre[last.number]

C9_Witness ==
    /\ last.op = "Delete"
    /\ Length(last.pre) = 0
    /\ last.number = 1
    /\ last.err = ErrEmpty

\* C10: a successful Delete(number) returns the text that was at position
\* number, takes one off Length(), keeps the records before position number
\* and moves the later ones one position earlier; the file holds the new
\* sequence, which is zero bytes when the only record was deleted.
C10_DeleteShifts ==
    (last.op = "Delete" /\ Succeeded) =>
        LET old == last.pre
            new == records[last.h]
        IN  /\ last.ret = old[last.number]
            /\ Length(new) = Length(old) - 1
            /\ \A i \in 1 .. last.number - 1 : new[i] = old[i]
            /\ \A i \in last.number + 1 .. Len(old) : new[i - 1] = old[i]
            /\ file = Join(new, NL)
            /\ Length(old) = 1 => Len(file) = 0

C10_Witness ==
    /\ last.op = "Delete"
    /\ Succeeded
    /\ last.number = 2
    /\ Length(last.pre) = 3
    /\ last.pre[2] # last.pre[3]
    /\ last.ret = last.pre[2]

\* C11: a successful Update(number, text) returns the text that was at
\* position number; afterwards Record(number) returns the new text, Length()
\* is what it was and every other record is what it was, in memory and in
\* the lines of the file.
C11_UpdateReplacesOne ==
    (last.op = "Update" /\ Succeeded) =>
        LET old == last.pre
            new == records[last.h]
            lines == Split(file, NL)
        IN  /\ last.ret = old[last.number]
            /\ Record(new, last.number) = [ret |-> last.text, err |-> NoErr]
            /\ Length(new) = Length(old)
            /\ \A i \in 1 .. Len(old) : i # last.number => new[i] = old[i]
            /\ Len(lines) = Length(old)
            /\ lines[last.number] = last.text
            /\ \A i \in 1 .. Len(old) : i # last.number => lines[i] = old[i]

C11_Witness ==
    /\ last.op = "Update"
    /\ Succeeded
    /\ last.number = 2
    /\ Length(last.pre) = 3
    /\ last.text # last.pre[2]
    /\ last.pre[1] # last.text
    /\ last.ret = last.pre[2]

\* C12: in every state of an open handle, All() has Length() entries and its
\* i-th entry (1-based) has number i and the text Record(i) returns; a call
\* of All returns just that, and nothing on a store with no records.
C12_AllIsDense ==
    /\ \A h \in Handles :
          opened[h] =>
              LET all == All(records[h])
              IN  /\ Len(all) = Length(records[h])
                  /\ \A i \in 1 .. Length(records[h]) :
                        /\ all[i].Number = i
                        /\ Record(records[h], i) = [ret |-> all[i].Text, err |-> NoErr]
    /\ last.op = "All" =>
          /\ Len(last.recs) = Length(records[last.h])
          /\ \A i \in 1 .. Len(last.recs) :
                last.recs[i] = Rec(i, records[last.h][i])
          /\ Length(records[last.h]) = 0 => last.recs = <<>>

C12_Witness ==
    /\ last.op = "All"
    /\ Len(last.recs) = 3
    /\ last.recs[3].Number = 3
    /\ last.recs[1].Text # last.recs[2].Text

\* C13: Select(filter) returns the entries of All() the filter is true of,
\* each once, in ascending record number, and never fails; it returns
\* nothing on a store with no records or when nothing matches.
C13_SelectIsFilteredAll ==
    (last.op = "Select") =>
        LET all == All(records[last.h])
            wanted == {i \in 1 .. Len(all) : Filter(last.filter, all[i])}
            got == last.recs
        IN  /\ Succeeded
            /\ Len(got) = Cardinality(wanted)
            /\ \A k \in 1 .. Len(got) : got[k].Number \in wanted /\ got[k] = all[got[k].Number]
            /\ \A k \in 1 .. Len(got) - 1 : got[k].Number < got[k + 1].Number
            /\ (Len(all) = 0 \/ wanted = {}) => got = <<>>

C13_Witness ==
    /\ last.op = "Select"
    /\ last.filter = "hasA"
    /\ Length(records[last.h]) = 3
    /\ Len(last.recs) = 2
    /\ last.recs[1].Number = 1
    /\ last.recs[2].Number = 3

\* C14: Open fails with the load error and returns no handle when the file
\* cannot be read; otherwise it returns a handle whose records are none for
\* a zero-byte file and else the file's content split on the separator: one
\* more record than there are separators, empty lines included.
C14_OpenDecodes ==
    (last.op = "Open") =>
        IF fault = "noaccess"
        THEN /\ last.err = ErrLoad
             /\ ~opened[last.h]
        ELSE /\ Succeeded
             /\ opened[last.h]
             /\ Len(file) = 0 => records[last.h] = <<>>
             /\ Len(file) > 0 =>
                   /\ Length(records[last.h]) = Count(file, NL) + 1
                   /\ Join(records[last.h], NL) = file
                   /\ \A i \in 1 .. Length(records[last.h]) :
                         Count(records[last.h][i], NL) = 0

C14_Witness ==
    /\ last.op = "Open"
    /\ Succeeded
    /\ file = <<NL, "a">>
    /\ records[last.h] = << <<>>, <<"a">> >>

\* C15: for the content f of the file an Open read, encoding the records
\* Open decoded and decoding again gives the same records, and the
\* zero-byte file gives no records, not one empty record.
C15_DecodeEncodeDecode ==
    (last.op = "Open" /\ Succeeded) =>
        LET decoded == records[last.h]
        IN  /\ decoded = loadFromFile(file, "none").records
            /\ loadFromFile(Join(decoded, NL), "none").records = decoded
            /\ Len(file) = 0 => decoded = <<>>

C15_Witness ==
    /\ last.op = "Open"
    /\ Succeeded
    /\ file = <<NL, NL>>
    /\ Length(records[last.h]) = 3

\* C16 as stated: in Insert, Update and Delete, when saveToFile is called
\* db.records is still what it was before the call, and it differs after the
\* call only if the write succeeded.
C16_MemoryUntouchedAtWrite ==
    (last.op \in Mutators /\ last.saved) =>
        /\ last.inMem = last.pre
        /\ records[last.h] # last.pre => Succeeded

\* C16 as amended: in Insert and Delete, when saveToFile is called db.records
\* is still what it was before the call; in Update it already holds the new
\* text at position number, and the old text is put back when the write
\* fails.  In all three db.records differs after the call only if the write
\* succeeded.
C16_MemoryCommittedOnSuccess ==
    (last.op \in Mutators /\ last.saved) =>
        /\ last.op \in {"Insert", "Delete"} => last.inMem = last.pre
        /\ last.op = "Update" =>
              /\ Len(last.inMem) = Len(last.pre)
              /\ \A i \in 1 .. Len(last.pre) :
                    last.inMem[i] = IF i = last.number THEN last.text ELSE last.pre[i]
        /\ records[last.h] # last.pre => Succeeded
        /\ ~Succeeded => records[last.h] = last.pre

C16_Witness ==
    /\ last.op = "Update"
    /\ last.saved
    /\ fault = "readonly"
    /\ last.err = ErrSave
    /\ last.inMem # last.pre
    /\ records[last.h] = last.pre

\* the call last made was rejected with the empty-store or out-of-bounds error
Rejected == last.err.kind \in {"empty", "bounds"}

\* C17: a call rejected with the empty-store or out-of-bounds error does not
\* write and leaves records and file as they were; Length, All, Record and
\* Select never change them; so every call either succeeds with the file
\* holding the joined records, or leaves records and file as they were.
C17_AllOrNothing ==
    (last.op \in Methods) =>
        /\ Rejected =>
              (~last.saved /\ records[last.h] = last.pre /\ file = last.preFile)
        /\ last.op \in {"Length", "All", "Record", "Select"} =>
              (records[last.h] = last.pre /\ file = last.preFile)
        /\ \/ (Succeeded /\ file = Join(records[last.h], NL))
           \/ (records[last.h] = last.pre /\ file = last.preFile)

\* C18: no call of Record, Insert, Update or Delete ends in a run-time panic,
\* whatever the number: each returns a result or an error, and the records
\* are indexed or sliced at number only when 1 <= number <= Length().
C18_NoPanic ==
    (last.op \in {"Record", "Insert", "Update", "Delete"}) =>
        LET inside == 1 <= last.number /\ last.number <= Length(last.pre)
        IN  /\ last.err.kind \in {"nil", "empty", "bounds", "save"}
            /\ (last.op \in {"Record", "Update", "Delete"} /\ ~Rejected) => inside
            /\ (last.op = "Insert" /\ last.saved /\ last.number # 0) => inside
            /\ ~inside => (Rejected \/ (last.op = "Insert" /\ last.number = 0))

C18_Witness ==
    /\ last.op = "Update"
    /\ Length(last.pre) = 2
    /\ last.number = 3
    /\ last.err = ErrBounds(3, 1, 2)

\* C19: a successful Insert keeps the handle equal to a fresh Open of the
\* file: if decoding the file gave the handle's records before the call, it
\* does after it.  No successful Insert ends with exactly one empty record
\* over a zero-byte file.
C19_InsertKeepsReopen ==
    (last.op = "Insert" /\ Succeeded) =>
        /\ loadFromFile(last.preFile, "none").records = last.pre
              => Reopened = records[last.h]
        /\ ~(records[last.h] = << <<>> >> /\ Len(file) = 0)

C19_Witness ==
    /\ last.op = "Insert"
    /\ Succeeded
    /\ last.text = <<>>
    /\ last.number = 1
    /\ last.pre = << <<"a">> >>
    /\ loadFromFile(last.preFile, "none").records = last.pre
    /\ Reopened = << <<>>, <<"a">> >>

\* the call last made was a successful write through handle h
WroteThrough(h) ==
    last.h = h /\ last.op \in Mutators /\ Succeeded /\ last.saved

\* a successful write through handle b that directly follows one through a,
\* both handles being open
WriteAfterWrite(a, b) ==
    /\ a # b
    /\ opened[a] /\ opened[b]
    /\ WroteThrough(a)
    /\ WroteThrough(b)'

\* C20 as stated: after a successful write through one handle followed by a
\* successful write through the other, the file is the second handle's
\* records joined, the first handle's records are no longer what the file
\* holds, and no call changes the records of the other handle.
C20_LostUpdateAlways ==
    [][\A a, b \in Handles :
          /\ WriteAfterWrite(a, b) =>
                /\ file' = Join(records'[b], NL)
                /\ file' # Join(records'[a], NL)
          /\ last'.h # a => records'[a] = records[a]]_vars

\* C20 as amended: after a successful write through one handle followed by
\* a successful write through the other, the file is the second handle's
\* records joined, computed from the records it held and not from the file,
\* so the first handle's write is in the file only where the second
\* handle's records happen to agree with it; no call changes the records of
\* the other handle.
C20_LostUpdate ==
    [][\A a, b \in Handles :
          /\ WriteAfterWrite(a, b) =>
                /\ file' = Join(records'[b], NL)
                /\ last'.pre = records[b]
                /\ file' = Join(records'[a], NL)
                      <=> Join(records[a], NL) = Join(records'[b], NL)
          /\ last'.h # a => records'[a] = records[a] /\ opened'[a] = opened[a]]_vars

\* a write through B that found the file changed since B last read or wrote
\* it, and left a file that A's records do not encode to
C20_Witness ==
    /\ opened["A"] /\ opened["B"]
    /\ WroteThrough("B")
    /\ last.preFile # Join(last.pre, NL)
    /\ last.preFile = Join(records["A"], NL)
    /\ file = Join(records["B"], NL)
    /\ file # Join(records["A"], NL)

=============================================================================
